---- MODULE Spec2Model ----
(***************************************************************************)
(* A model of the chess rules engine of schaak (src/src/state.rs,          *)
(* chess_move.rs, piece.rs, square.rs) driven by the click handler of the  *)
(* game loop (src/src/main.rs).                                            *)
(*                                                                         *)
(* A coordinate is a pair <<file, rank>> with both parts in 0..7; the      *)
(* board is the array `squares`, indexed by file + 8 * rank.  A ChessMove  *)
(* is a record holding its destination and the name of the closure the     *)
(* generator attached to it, together with the values the closure          *)
(* captured (the source coordinate and the mover's colour).                *)
(***************************************************************************)
EXTENDS Integers, Sequences, FiniteSets, TLC

VARIABLES squares, turn, selected_square, history, next_promotor,
          aborted, script, free, last,
          player, coordinator, tick

game_vars == <<squares, turn, selected_square, history, next_promotor,
               aborted, script, free, last>>

player_vars == <<player, coordinator, tick>>

vars == <<squares, turn, selected_square, history, next_promotor,
          aborted, script, free, last, player, coordinator, tick>>

(***************************************************************************)
(* Bound of the model: the number of plies played freely (any piece of     *)
(* the side to move, any target square) once the scripted opening of a     *)
(* run has been played out.                                                *)
(***************************************************************************)
MaxFree == 1

(***************************************************************************)
(* Bounds of the player worker's runs: the ticks of a run, the moves the   *)
(* coordinator has yet to send when the worker is built, and the calls of  *)
(* send_move and update_internal_state made on the worker outside a tick.  *)
(***************************************************************************)
MaxTicks == 2

MaxFeed == 2

MaxCalls == 1

\* ------------------------------------------------------------------------
\* piece.rs, square.rs
\* ------------------------------------------------------------------------

White == "White"
Black == "Black"

flip(colour) == IF colour = White THEN Black ELSE White

is_sliding(kind) == kind \notin {"Pawn", "King", "Knight"}

\* Option<Piece>::None
NoPiece == [kind |-> "None", colour |-> "None",
            has_moved |-> FALSE, en_passanteable |-> FALSE]

from_char(kind, colour) ==
    [kind |-> kind, colour |-> colour,
     has_moved |-> FALSE, en_passanteable |-> FALSE]

\* Option<(u8, u8)>::None
NoCoord == <<>>

BoardIndices == 0..63

Rank == 0..7

index(c) == c[1] + 8 * c[2]

coords(i) == <<i % 8, i \div 8>>

OnBoard(c) == c[1] \in Rank /\ c[2] \in Rank

\* ------------------------------------------------------------------------
\* chess_move.rs
\* ------------------------------------------------------------------------

KNIGHT_MOVES_RAW ==
    {<<1, 2>>, <<-1, 2>>, <<2, 1>>, <<-2, 1>>,
     <<2, -1>>, <<-2, -1>>, <<1, -2>>, <<-1, -2>>}

KING_MOVES_RAW ==
    {<<-1, -1>>, <<-1, 0>>, <<-1, 1>>, <<0, 1>>,
     <<0, -1>>, <<1, -1>>, <<1, 0>>, <<1, 1>>}

ROOK_OFFSETS == {<<-1, 0>>, <<1, 0>>, <<0, -1>>, <<0, 1>>}

BISHOP_OFFSETS == {<<-1, -1>>, <<1, -1>>, <<-1, 1>>, <<1, 1>>}

QUEEN_OFFSETS == BISHOP_OFFSETS \cup ROOK_OFFSETS

\* A ChessMove: dst, and the closure in `function` with what it captured.
ChessMove(dst, function, coord, colour) ==
    [dst |-> dst, function |-> function, coord |-> coord, colour |-> colour]

\* ChessMove::dummy: the closure does nothing and reports "not handled".
dummy(dst) == ChessMove(dst, "dummy", NoCoord, "None")

PerformedMove(src, dst) == <<src, dst>>

\* ------------------------------------------------------------------------
\* state.rs: State::new
\* ------------------------------------------------------------------------

new_squares ==
    [i \in BoardIndices |->
        LET x == i % 8
            y == i \div 8
            back(col) ==
                CASE x \in {0, 7} -> from_char("Rook", col)
                  [] x \in {1, 6} -> from_char("Knight", col)
                  [] x \in {2, 5} -> from_char("Bishop", col)
                  [] x = 3 -> from_char("Queen", col)
                  [] OTHER -> from_char("King", col)
        IN  CASE y = 1 -> from_char("Pawn", White)
              [] y = 6 -> from_char("Pawn", Black)
              [] y = 0 -> back(White)
              [] y = 7 -> back(Black)
              [] OTHER -> NoPiece]

\* The State value the engine's methods work on (the fields the rules read).
State(sq, hist, promotor) ==
    [squares |-> sq, history |-> hist, next_promotor |-> promotor]

\* ------------------------------------------------------------------------
\* state.rs: lookups
\* ------------------------------------------------------------------------

\* #[derive(Clone)]: the squares (an array of Copy values) and the history
\* (a Vec of Copy values) are copied element by element.
clone(st) == st

content(st, c) == st.squares[index(c)]

is_some(piece) == piece # NoPiece

Min(S) == CHOOSE i \in S : \A j \in S : i <= j

\* The element of a one-element set.  A value bound as the element of a set
\* is computed once, however often the expression it is bound in reads it.
the(S) == CHOOSE x \in S : TRUE

\* The first square, in index order, holding col's king; NoCoord when the
\* search finds none (the .expect() then aborts the program).
get_king_coord(st, col) ==
    LET kings == {i \in BoardIndices :
                    /\ st.squares[i].kind = "King"
                    /\ st.squares[i].colour = col}
    IN  IF kings = {} THEN NoCoord ELSE coords(Min(kings))

\* ------------------------------------------------------------------------
\* state.rs: effects of the closures, and make_move
\* ------------------------------------------------------------------------

push(st, rec) == [st EXCEPT !.history = Append(@, rec)]

put(st, c, piece) == [st EXCEPT !.squares[index(c)] = piece]

\* The result of a call that may abort the program.
Ok(st) == [panic |-> FALSE, state |-> st]

Panic(st) == [panic |-> TRUE, state |-> st]

\* A variant of relocate that leaves the piece on its source square as well;
\* with it in place of relocate, C22 does not hold.
relocate_leaving_source(st, src, dst) ==
    IF ~is_some(content(st, src))
    THEN Panic(st)
    ELSE Ok(put(st, dst, [content(st, src) EXCEPT !.has_moved = TRUE]))

\* make_move's "manual" relocation, for a closure that returned false.
relocate(st, src, dst) ==
    IF ~is_some(content(st, src))
    THEN Panic(st)
    ELSE Ok(put(put(st, dst, [content(st, src) EXCEPT !.has_moved = TRUE]),
                src, NoPiece))

promote_pawn(st, src, dst) ==
    IF st.next_promotor \in {"Pawn", "King"} \/ ~is_some(content(st, src))
    THEN Panic(st)
    ELSE Ok(put(put(st, dst, [kind |-> st.next_promotor,
                              colour |-> content(st, src).colour,
                              has_moved |-> TRUE,
                              en_passanteable |-> FALSE]),
                src, NoPiece))

\* A variant of en_passant that leaves the captured pawn on the board; with
\* it in place of en_passant, C5 does not hold.
en_passant_keeping_pawn(st, src, dst) ==
    Ok(put(put(st, dst, content(st, src)), src, NoPiece))

en_passant(st, src, dst) ==
    Ok(put(put(put(st, dst, content(st, src)),
               <<dst[1], src[2]>>, NoPiece),
           src, NoPiece))

RECURSIVE make_move(_, _, _)

\* A variant of perform_castle whose long castling puts the king on the
\* b-file; with it in place of perform_castle, C7 does not hold.
perform_castle_to_b_file(st, long_castle, col) ==
    LET rook_coord == <<IF long_castle THEN 0 ELSE 7,
                        IF col = White THEN 0 ELSE 7>>
        king_coord == get_king_coord(st, col)
    IN  IF king_coord = NoCoord
        THEN Panic(st)
        ELSE LET rook_target == <<IF long_castle THEN 3 ELSE 5, rook_coord[2]>>
                 king_target == <<IF long_castle THEN 1 ELSE 6, king_coord[2]>>
                 r1 == make_move(st, rook_coord, dummy(rook_target))
             IN  IF r1.panic THEN r1
                 ELSE make_move(r1.state, king_coord, dummy(king_target))

\* perform_castle: two make_move calls with dummy moves, rook first.
perform_castle(st, long_castle, col) ==
    LET rook_coord == <<IF long_castle THEN 0 ELSE 7,
                        IF col = White THEN 0 ELSE 7>>
        king_coord == get_king_coord(st, col)
    IN  IF king_coord = NoCoord
        THEN Panic(st)
        ELSE LET rook_target == <<IF long_castle THEN 3 ELSE 5, rook_coord[2]>>
                 king_target == <<IF long_castle THEN 2 ELSE 6, king_coord[2]>>
                 r1 == make_move(st, rook_coord, dummy(rook_target))
             IN  IF r1.panic THEN r1
                 ELSE make_move(r1.state, king_coord, dummy(king_target))

\* The piece the double-push closure writes on the pawn's source square.
double_push_piece(colour) ==
    [kind |-> "Pawn", colour |-> colour,
     has_moved |-> TRUE, en_passanteable |-> TRUE]

\* A variant of history_record with source and destination exchanged; with
\* it in place of history_record, C9 does not hold.
history_record_reversed(mv) == PerformedMove(mv.dst, mv.coord)

\* The record a generated move's closure appends to the history.
history_record(mv) == PerformedMove(mv.coord, mv.dst)

\* (chess_move.function)(self): [panic, handled, state].
run_function(st, mv) ==
    LET logged == push(st, history_record(mv))
        done(r) == [panic |-> r.panic, handled |-> TRUE, state |-> r.state]
        not_handled(s) == [panic |-> FALSE, handled |-> FALSE, state |-> s]
    IN  CASE mv.function = "dummy" -> not_handled(st)
          [] mv.function = "history_only" -> not_handled(logged)
          [] mv.function = "double_push" ->
                not_handled(put(logged, mv.coord, double_push_piece(mv.colour)))
          [] mv.function = "promote_pawn" ->
                done(promote_pawn(logged, mv.coord, mv.dst))
          [] mv.function = "en_passant" ->
                done(en_passant(logged, mv.coord, mv.dst))
          [] mv.function = "castle_long" ->
                done(perform_castle(logged, TRUE, mv.colour))
          [] mv.function = "castle_short" ->
                done(perform_castle(logged, FALSE, mv.colour))

make_move(st, src, chess_move) ==
    LET f == run_function(st, chess_move)
    IN  IF f.panic THEN Panic(f.state)
        ELSE IF ~f.handled THEN relocate(f.state, src, chess_move.dst)
        ELSE Ok(f.state)

\* ------------------------------------------------------------------------
\* state.rs: get_moves, the pseudo-legal generator (lines 190-363)
\* ------------------------------------------------------------------------

\* The k-th square from coord in a direction.
step(coord, direction, k) ==
    <<coord[1] + k * direction[1], coord[2] + k * direction[2]>>

\* A variant of ray_until that leaves out the enemy piece the ray meets;
\* with it in place of ray_until, C13 does not hold.
ray_until_before_enemy(st, colour, coord, direction, n) ==
    LET next_as_valid == step(coord, direction, n)
    IN  {step(coord, direction, k) : k \in 1..(n - 1)}
        \cup (IF ~OnBoard(next_as_valid) THEN {}
              ELSE {step(coord, direction, n - 1)})

\* The squares the loop of lines 200-225 has inserted when it breaks at its
\* n-th step: the n - 1 empty squares it advanced over and, when the n-th
\* square is on the board (so occupied), current_coord and, for an enemy
\* piece, that square too.  With n = 1 current_coord is the piece's own
\* square.
ray_until(st, colour, coord, direction, n) ==
    LET next_as_valid == step(coord, direction, n)
    IN  {step(coord, direction, k) : k \in 1..(n - 1)}
        \cup (IF ~OnBoard(next_as_valid) THEN {}
              ELSE IF content(st, next_as_valid).colour = flip(colour)
              THEN {step(coord, direction, n - 1), next_as_valid}
              ELSE {step(coord, direction, n - 1)})

\* One direction of a sliding piece: the loop breaks at the first step that
\* leaves the board or meets a piece.
ray(st, colour, coord, direction) ==
    UNION {ray_until(st, colour, coord, direction, n) :
             n \in {Min({k \in 1..8 :
                           \/ ~OnBoard(step(coord, direction, k))
                           \/ is_some(content(st, step(coord, direction, k)))})}}

sliding_offsets(kind) ==
    CASE kind = "Queen" -> QUEEN_OFFSETS
      [] kind = "Rook" -> ROOK_OFFSETS
      [] kind = "Bishop" -> BISHOP_OFFSETS

\* A variant of sliding_moves without the removal of line 229; with it in
\* place of sliding_moves, C15 does not hold.
sliding_moves_keeping_coord(st, piece, coord) ==
    UNION {ray(st, piece.colour, coord, d) : d \in sliding_offsets(piece.kind)}

sliding_moves(st, piece, coord) ==
    UNION {ray(st, piece.colour, coord, d) : d \in sliding_offsets(piece.kind)}
        \ {coord}

pawn_offsets(piece, coord) ==
    IF piece.colour = White
    THEN IF coord[2] = 6 THEN {}
         ELSE IF piece.has_moved THEN {<<0, 1>>} ELSE {<<0, 1>>, <<0, 2>>}
    ELSE IF coord[2] = 1 THEN {}
         ELSE IF piece.has_moved THEN {<<0, -1>>} ELSE {<<0, -1>>, <<0, -2>>}

offsets_raw(piece, coord) ==
    CASE piece.kind = "Pawn" -> pawn_offsets(piece, coord)
      [] piece.kind = "Knight" -> KNIGHT_MOVES_RAW
      [] piece.kind = "King" -> KING_MOVES_RAW

\* A variant of stepping_moves that keeps the squares held by friendly
\* pieces; with it in place of stepping_moves, C14 does not hold.
stepping_moves_onto_friends(st, piece, coord) ==
    {s \in {<<coord[1] + m[1], coord[2] + m[2]>> : m \in offsets_raw(piece, coord)} :
        OnBoard(s)}

\* offsets_raw mapped to squares: on the board, empty or held by the enemy.
stepping_moves(st, piece, coord) ==
    {s \in {<<coord[1] + m[1], coord[2] + m[2]>> : m \in offsets_raw(piece, coord)} :
        /\ OnBoard(s)
        /\ \/ ~is_some(content(st, s))
           \/ content(st, s).colour = flip(piece.colour)}

up_dir(piece) == IF piece.colour = White THEN 1 ELSE -1

\* A variant of pawn_moves that adds the diagonal squares whatever they
\* hold; with it in place of pawn_moves, C25 does not hold.
pawn_moves_capturing_anything(st, piece, coord) ==
    stepping_moves(st, piece, coord)
        \cup {s \in {<<coord[1] - 1, coord[2] + up_dir(piece)>>,
                     <<coord[1] + 1, coord[2] + up_dir(piece)>>} : OnBoard(s)}

\* The pawn's corrections to the stepping set: forward squares that are
\* occupied are removed, diagonal squares holding an enemy are added.
pawn_moves(st, piece, coord) ==
    LET up_coord == <<coord[1], coord[2] + up_dir(piece)>>
        double_up_coord == <<coord[1], coord[2] + 2 * up_dir(piece)>>
        m0 == stepping_moves(st, piece, coord)
        m1 == IF ~piece.has_moved /\ is_some(content(st, double_up_coord))
              THEN m0 \ {double_up_coord} ELSE m0
        m2 == IF is_some(content(st, up_coord)) THEN m1 \ {up_coord} ELSE m1
        capture(dx) ==
            LET target_coord == <<coord[1] + dx, coord[2] + up_dir(piece)>>
            IN  IF /\ target_coord[1] \in Rank
                   /\ is_some(content(st, target_coord))
                   /\ content(st, target_coord).colour = flip(piece.colour)
                THEN {target_coord} ELSE {}
    IN  IF up_coord[2] \in Rank
        THEN m2 \cup capture(-1) \cup capture(1)
        ELSE m1

\* An unmoved pawn whose second square ahead is off the board: the read of
\* self[double_up_coord] is out of the array's bounds.
pawn_index_panic(piece, coord) ==
    /\ piece.kind = "Pawn"
    /\ ~piece.has_moved
    /\ (coord[2] + 2 * up_dir(piece)) \notin Rank

\* The en passant moves pushed while the pawn's captures are computed:
\* the piece beside the pawn is flagged en_passanteable.
en_passant_moves(st, piece, coord) ==
    LET side(dx) ==
            LET beside == <<coord[1] + dx, coord[2]>>
                dst == <<coord[1] + dx, coord[2] + up_dir(piece)>>
            IN  IF /\ beside[1] \in Rank
                   /\ is_some(content(st, beside))
                   /\ content(st, beside).en_passanteable
                THEN {ChessMove(dst, "en_passant", coord, piece.colour)}
                ELSE {}
    IN  IF piece.kind = "Pawn" /\ (coord[2] + up_dir(piece)) \in Rank
        THEN side(-1) \cup side(1)
        ELSE {}

\* The HashSet `moves` when the check filter starts.
candidate_moves(st, piece, coord) ==
    IF is_sliding(piece.kind) THEN sliding_moves(st, piece, coord)
    ELSE IF piece.kind = "Pawn" THEN pawn_moves(st, piece, coord)
    ELSE stepping_moves(st, piece, coord)

\* ------------------------------------------------------------------------
\* state.rs: get_moves, the filter and the closures (lines 365-523),
\* and is_in_check
\* ------------------------------------------------------------------------

\* The test of line 394, with Rust's precedence: && binds tighter than ||.
is_promotion(piece, m) == (piece.kind = "Pawn" /\ m[2] = 0) \/ m[2] = 7

is_double_push(piece, coord, m) ==
    /\ piece.kind = "Pawn"
    /\ (m[2] - coord[2] = 2 \/ coord[2] - m[2] = 2)
    /\ ~piece.has_moved

\* The closure the loop over nonchecking_moves attaches to destination m.
with_function(piece, coord, m) ==
    IF is_promotion(piece, m)
    THEN ChessMove(m, "promote_pawn", coord, piece.colour)
    ELSE IF is_double_push(piece, coord, m)
    THEN ChessMove(m, "double_push", coord, piece.colour)
    ELSE ChessMove(m, "history_only", coord, piece.colour)

\* A variant of castling_moves that does not look at the f-file square; with
\* it in place of castling_moves, C8 does not hold.
castling_moves_over_f_file(st, piece, coord, king_coord) ==
    LET y == king_coord[2]
        empty(x) == ~is_some(content(st, <<x, y>>))
        piece_on_a_file == content(st, <<0, y>>)
        piece_on_h_file == content(st, <<7, y>>)
        long == IF /\ is_some(piece_on_a_file)
                   /\ piece_on_a_file.kind = "Rook"
                   /\ ~piece_on_a_file.has_moved
                   /\ empty(1) /\ empty(2) /\ empty(3)
                THEN {ChessMove(<<king_coord[1] - 2, y>>, "castle_long",
                                coord, piece.colour)}
                ELSE {}
        short == IF /\ is_some(piece_on_h_file)
                    /\ piece_on_h_file.kind = "Rook"
                    /\ ~piece_on_h_file.has_moved
                    /\ empty(6)
                 THEN {ChessMove(<<king_coord[1] + 2, y>>, "castle_short",
                                 coord, piece.colour)}
                 ELSE {}
    IN  IF coord = king_coord /\ ~content(st, king_coord).has_moved
        THEN long \cup short
        ELSE {}

\* Lines 445-521; king_coord is the square get_king_coord found.
castling_moves(st, piece, coord, king_coord) ==
    LET y == king_coord[2]
        empty(x) == ~is_some(content(st, <<x, y>>))
        piece_on_a_file == content(st, <<0, y>>)
        piece_on_h_file == content(st, <<7, y>>)
        long == IF /\ is_some(piece_on_a_file)
                   /\ piece_on_a_file.kind = "Rook"
                   /\ ~piece_on_a_file.has_moved
                   /\ empty(1) /\ empty(2) /\ empty(3)
                THEN {ChessMove(<<king_coord[1] - 2, y>>, "castle_long",
                                coord, piece.colour)}
                ELSE {}
        short == IF /\ is_some(piece_on_h_file)
                    /\ piece_on_h_file.kind = "Rook"
                    /\ ~piece_on_h_file.has_moved
                    /\ empty(5) /\ empty(6)
                 THEN {ChessMove(<<king_coord[1] + 2, y>>, "castle_short",
                                 coord, piece.colour)}
                 ELSE {}
    IN  IF coord = king_coord /\ ~content(st, king_coord).has_moved
        THEN long \cup short
        ELSE {}

RECURSIVE is_in_check(_, _)

\* Lines 377-378, one pass of the filter: the State the call was made on
\* and its scratch copy, self.clone() with the candidate applied as a dummy
\* move.
simulate(st, coord, m) ==
    the({[self |-> st, test_board |-> made.state] :
            made \in {make_move(clone(st), coord, dummy(m))}})

\* The filter's scratch copy.
test_board(st, coord, m) == simulate(st, coord, m).test_board

\* Lines 369-385: each candidate with the filter's verdict on its scratch
\* copy ("no": the candidate is kept).
filter_verdicts(st, piece, coord, moves, test_for_checks) ==
    IF test_for_checks
    THEN {<<b[1], is_in_check(b[2], piece.colour)>> :
            b \in {<<m, test_board(st, coord, m)>> : m \in moves}}
    ELSE {<<m, "no">> : m \in moves}

\* A variant of moves_from that leaves out the castling moves when no king
\* is found, instead of aborting; with it in place of moves_from, C19 does
\* not hold.
moves_from_without_king(st, piece, coord, checked, king_coord) ==
    IF \E c \in checked : c[2] = "panic"
    THEN [panic |-> TRUE, moves |-> {}]
    ELSE LET nonchecking_moves == {c[1] : c \in {d \in checked : d[2] = "no"}}
         IN  [panic |-> FALSE,
              moves |-> en_passant_moves(st, piece, coord)
                        \cup {with_function(piece, coord, m) :
                                m \in nonchecking_moves}
                        \cup IF king_coord = NoCoord THEN {}
                             ELSE castling_moves(st, piece, coord, king_coord)]

\* Lines 387-523, from the filter's verdicts and the king's square on.
moves_from(st, piece, coord, checked, king_coord) ==
    IF (\E c \in checked : c[2] = "panic") \/ king_coord = NoCoord
    THEN [panic |-> TRUE, moves |-> {}]
    ELSE LET nonchecking_moves == {c[1] : c \in {d \in checked : d[2] = "no"}}
         IN  [panic |-> FALSE,
              moves |-> en_passant_moves(st, piece, coord)
                        \cup {with_function(piece, coord, m) :
                                m \in nonchecking_moves}
                        \cup castling_moves(st, piece, coord, king_coord)]

\* get_moves: [panic, moves].  `moves` is the returned Vec as a set; the
\* en passant moves come first in the Vec, the castling moves last.
get_moves(st, coord, test_for_checks) ==
    LET piece == content(st, coord)
    IN  IF ~is_some(piece) \/ pawn_index_panic(piece, coord)
        THEN [panic |-> TRUE, moves |-> {}]
        ELSE the({moves_from(st, piece, coord, checked, king_coord) :
                    checked \in {filter_verdicts(st, piece, coord,
                                     candidate_moves(st, piece, coord),
                                     test_for_checks)},
                    king_coord \in {get_king_coord(st, piece.colour)}})

\* One pass of is_in_check's loop, on the piece of square i: "panic" when
\* get_moves aborts, "yes" when the king's square is among its destinations.
visit(st, i, king_coord) ==
    the({IF enemy_moves.panic THEN "panic"
         ELSE IF king_coord \in {m.dst : m \in enemy_moves.moves} THEN "yes"
         ELSE "no" :
            enemy_moves \in {get_moves(st, coords(i), FALSE)}})

\* The loop's outcome: that of the first visit, in index order, that does
\* not fall through to the next square.
first_stop(visits) ==
    LET stops == {v \in visits : v[2] # "no"}
    IN  IF stops = {} THEN "no"
        ELSE the({v[2] : v \in {w \in stops : \A u \in stops : w[1] <= u[1]}})

\* is_in_check: "yes", "no", or "panic" when the program aborts inside it.
is_in_check(st, col) ==
    the({IF king_coord = NoCoord THEN "panic"
         ELSE first_stop({<<i, visit(st, i, king_coord)>> :
                            i \in {j \in BoardIndices : is_some(st.squares[j])}}) :
            king_coord \in {get_king_coord(st, col)}})

\* attempt_move's choice among the returned moves: the first one in the Vec
\* whose destination is the target.
first_match(moves, target) ==
    LET hits == {m \in moves : m.dst = target}
        first == {m \in hits : m.function = "en_passant"}
    IN  IF first # {} THEN CHOOSE m \in first : TRUE
        ELSE CHOOSE m \in hits : TRUE

\* A variant of attempt_move_given that keeps the selection when it rejects
\* the target; with it in place of attempt_move_given, C17 does not hold.
attempt_move_keeping_selection(st, source_coordinate, target_coordinate, got) ==
    LET source_piece == content(st, source_coordinate)
        target_square == content(st, target_coordinate)
        rejected == [panic |-> FALSE, value |-> FALSE, state |-> st,
                     move |-> dummy(NoCoord),
                     selected_square |-> source_coordinate]
    IN  IF ~is_some(source_piece) THEN [rejected EXCEPT !.panic = TRUE]
        ELSE IF source_coordinate = target_coordinate THEN rejected
        ELSE IF is_some(target_square) /\ target_square.colour = source_piece.colour
        THEN rejected
        ELSE IF got.panic
        THEN [rejected EXCEPT !.panic = TRUE]
        ELSE IF ~(\E m \in got.moves : m.dst = target_coordinate)
        THEN rejected
        ELSE LET move_to_be_made == first_match(got.moves, target_coordinate)
                 made == make_move(st, source_coordinate, move_to_be_made)
             IN  [panic |-> made.panic, value |-> TRUE,
                  state |-> made.state, move |-> move_to_be_made,
                  selected_square |-> NoCoord]

\* The body of attempt_move, with `got` the value of
\* self.get_moves(source_coordinate, true) of line 139, read only where the
\* code makes the call: [panic, value, state, move, selected_square], the
\* last being the selection as line 152 leaves it.
attempt_move_given(st, source_coordinate, target_coordinate, got) ==
    LET source_piece == content(st, source_coordinate)
        target_square == content(st, target_coordinate)
        rejected == [panic |-> FALSE, value |-> FALSE, state |-> st,
                     move |-> dummy(NoCoord),
                     selected_square |-> NoCoord]
    IN  IF ~is_some(source_piece) THEN [rejected EXCEPT !.panic = TRUE]
        ELSE IF source_coordinate = target_coordinate THEN rejected
        ELSE IF is_some(target_square) /\ target_square.colour = source_piece.colour
        THEN rejected
        ELSE IF got.panic
        THEN [rejected EXCEPT !.panic = TRUE]
        ELSE IF ~(\E m \in got.moves : m.dst = target_coordinate)
        THEN rejected
        ELSE LET move_to_be_made == first_match(got.moves, target_coordinate)
                 made == make_move(st, source_coordinate, move_to_be_made)
             IN  [panic |-> made.panic, value |-> TRUE,
                  state |-> made.state, move |-> move_to_be_made,
                  selected_square |-> NoCoord]

attempt_move(st, source_coordinate, target_coordinate) ==
    attempt_move_given(st, source_coordinate, target_coordinate,
                       get_moves(st, source_coordinate, TRUE))

\* attempt_move for each of the targets, on one evaluation of get_moves.
attempts(st, source_coordinate, targets) ==
    {attempt_move_given(st, source_coordinate, t, got) :
        t \in targets, got \in {get_moves(st, source_coordinate, TRUE)}}

\* ------------------------------------------------------------------------
\* Turn completion.  Nothing clears en_passanteable: a pawn that has double
\* pushed keeps the flag wherever it goes.
\* ------------------------------------------------------------------------

\* A variant of turn_after that flips the turn after every attempt; with it
\* in place of turn_after, C26 does not hold.
turn_after_every_attempt(colour, value) == flip(colour)

\* main.rs 367-370: the turn flips when attempt_move returned true.
turn_after(colour, value) == IF value THEN flip(colour) ELSE colour

\* ------------------------------------------------------------------------
\* The clicks fed to the game loop.  A run first plays one of the scripted
\* openings below, click by click through the same handler, and then up to
\* MaxFree plies with every piece and every target square.
\* A script entry is <<source file, source rank, target file, target rank>>.
\* ------------------------------------------------------------------------

\* 1. e4 d6 2. e5 Qd7 3. a3 Qe6 4. a4 f5: the pawn on e5 is pinned on the
\* e-file and stands beside the pawn that has just double-pushed to f5.
LinePinnedEnPassant ==
    << <<4, 1, 4, 3>>, <<3, 6, 3, 5>>, <<4, 3, 4, 4>>, <<3, 7, 3, 6>>,
       <<0, 1, 0, 2>>, <<3, 6, 4, 5>>, <<0, 2, 0, 3>>, <<5, 6, 5, 4>> >>

\* 1. d4 d5 2. Qd3 Qd6 3. Bd2 Bd7 4. Nc3 Nc6 5. Nf3 Nf6 6. g3 g6 7. Bg2 Bg7:
\* both castling moves are open to White.
LineCastleWhite ==
    << <<3, 1, 3, 3>>, <<3, 6, 3, 4>>, <<3, 0, 3, 2>>, <<3, 7, 3, 5>>,
       <<2, 0, 3, 1>>, <<2, 7, 3, 6>>, <<1, 0, 2, 2>>, <<1, 7, 2, 5>>,
       <<6, 0, 5, 2>>, <<6, 7, 5, 5>>, <<6, 1, 6, 2>>, <<6, 6, 6, 5>>,
       <<5, 0, 6, 1>>, <<5, 7, 6, 6>> >>

\* The same with 8. a3: both castling moves are open to Black.
LineCastleBlack == Append(LineCastleWhite, <<0, 1, 0, 2>>)

\* 1. Nf3 e6 2. g3 a6 3. Bg2 a5 4. d4 Bb4+: White is in check with the
\* short castling squares empty.
LineCastleInCheck ==
    << <<6, 0, 5, 2>>, <<4, 6, 4, 5>>, <<6, 1, 6, 2>>, <<0, 6, 0, 5>>,
       <<5, 0, 6, 1>>, <<0, 5, 0, 4>>, <<3, 1, 3, 3>>, <<5, 7, 1, 3>> >>

\* 1. a3 Nc6 2. a4: Black's rook can step from a8 to b8.
LineRookOnBackRank ==
    << <<0, 1, 0, 2>>, <<1, 7, 2, 5>>, <<0, 2, 0, 3>> >>

\* 1. a3 d6 2. a4 Qd7 3. a5 Kd8: Black's king steps along its home rank.
LineKingOnBackRank ==
    << <<0, 1, 0, 2>>, <<3, 6, 3, 5>>, <<0, 2, 0, 3>>, <<3, 7, 3, 6>>,
       <<0, 3, 0, 4>>, <<4, 7, 3, 7>> >>

\* 1. a4 Nc6 2. a5 Nf6 3. a6 e6 4. axb7 h6: a White pawn stands on b7 with
\* b8 empty, and White is to move.
LinePawnOnSeventh ==
    << <<0, 1, 0, 3>>, <<1, 7, 2, 5>>, <<0, 3, 0, 4>>, <<6, 7, 5, 5>>,
       <<0, 4, 0, 5>>, <<4, 6, 4, 5>>, <<0, 5, 1, 6>>, <<7, 6, 7, 5>> >>

\* The same up to 4. axb7: Black is to move, and its pawn on a7, which has
\* not moved, stands beside the pawn on b7, which double-pushed on move 1.
LinePawnBesideUnmoved == SubSeq(LinePawnOnSeventh, 1, 7)

\* 1. e4 d5 2. d4: White's pawn on e4 attacks the pawn on d5 and stands
\* beside White's own pawn that has just double-pushed to d4.
LineOwnPawnBeside ==
    << <<4, 1, 4, 3>>, <<3, 6, 3, 4>>, <<3, 1, 3, 3>> >>

\* 1. e4 a6 2. Ke2 a5 3. Ke3 a4 4. Kf4 h6 5. Ke5 h5 6. Kd5 h4 7. d4: White's
\* king stands on d5, diagonally ahead of White's pawn on e4, beside which
\* White's own pawn has just double-pushed to d4.
LineKingAheadOfPawn ==
    << <<4, 1, 4, 3>>, <<0, 6, 0, 5>>, <<4, 0, 4, 1>>, <<0, 5, 0, 4>>,
       <<4, 1, 4, 2>>, <<0, 4, 0, 3>>, <<4, 2, 5, 3>>, <<7, 6, 7, 5>>,
       <<5, 3, 4, 4>>, <<7, 5, 7, 4>>, <<4, 4, 3, 4>>, <<7, 4, 7, 3>>,
       <<3, 1, 3, 3>> >>

\* 1. e4 f6 2. Qh5+: Black is in check along h5-e8 and g6 is the one move
\* that ends it.
LineOnlyMove ==
    << <<4, 1, 4, 3>>, <<5, 6, 5, 5>>, <<3, 0, 7, 4>> >>

\* 1. a4 Nc6 2. a5 Nf6 3. a6 e6 4. axb7 h6 5. b4 h5 6. b5 h4 7. b6 g6 8. bxa7
\* g5 9. a7-b8: White's pawn on a7 stands beside White's own pawn on b7,
\* which double-pushed on move 1, and takes the en passant move to b8.
LinePawnsOnSeventh ==
    LinePawnOnSeventh \o
    << <<1, 1, 1, 3>>, <<7, 5, 7, 4>>, <<1, 3, 1, 4>>, <<7, 4, 7, 3>>,
       <<1, 4, 1, 5>>, <<6, 6, 6, 5>>, <<1, 5, 0, 6>>, <<6, 5, 6, 4>>,
       <<0, 6, 1, 7>> >>

\* 1. c4 d5 2. c5 h6 3. c6 h5 4. a4 h4 5. a5 g6 6. a6 g5 7. axb7 a7-b6
\* 8. e4 b6-c5 9. Ke2 c5-d4 10. h3 d4-e3 11. Ra2 e3-e1.  Black's pawn from a7
\* goes by four en passant moves, beside the pawns on b7, c6, d5 and e4 that
\* double-pushed earlier, to e3 without having moved; e1 is empty.
LineUnmovedPawnOnThird ==
    << <<2, 1, 2, 3>>, <<3, 6, 3, 4>>, <<2, 3, 2, 4>>, <<7, 6, 7, 5>>,
       <<2, 4, 2, 5>>, <<7, 5, 7, 4>>, <<0, 1, 0, 3>>, <<7, 4, 7, 3>>,
       <<0, 3, 0, 4>>, <<6, 6, 6, 5>>, <<0, 4, 0, 5>>, <<6, 5, 6, 4>>,
       <<0, 5, 1, 6>>, <<0, 6, 1, 5>>, <<4, 1, 4, 3>>, <<1, 5, 2, 4>>,
       <<4, 0, 4, 1>>, <<2, 4, 3, 3>>, <<7, 1, 7, 2>>, <<3, 3, 4, 2>>,
       <<0, 0, 0, 1>>, <<4, 2, 4, 0>> >>

Lines ==
    {<<>>, LinePinnedEnPassant, LineCastleWhite, LineCastleBlack,
     LineCastleInCheck, LineRookOnBackRank, LineKingOnBackRank,
     LinePawnOnSeventh, LinePawnBesideUnmoved, LineOwnPawnBeside,
     LineKingAheadOfPawn, LinePawnsOnSeventh, LineUnmovedPawnOnThird}

script_source == <<Head(script)[1], Head(script)[2]>>

script_target == <<Head(script)[3], Head(script)[4]>>

\* ------------------------------------------------------------------------
\* The state machine
\* ------------------------------------------------------------------------

\* What the last accepted attempt_move did: the move it picked, the mover,
\* and the State before and right after make_move (before the turn flips).
NoMove ==
    [function |-> "none", src |-> NoCoord, dst |-> NoCoord, colour |-> "None",
     before |-> State(new_squares, <<>>, "Queen"),
     after |-> State(new_squares, <<>>, "Queen")]

\* No player worker has been built.
NoPlayer == [kind |-> "none"]

NoCoordinator == [feed |-> <<>>, sent |-> <<>>, calls |-> 0]

NoTick == [n |-> 0]

Init ==
    /\ squares = new_squares
    /\ turn = White
    /\ selected_square = NoCoord
    /\ history = <<>>
    /\ next_promotor = "Queen"
    /\ aborted = FALSE
    /\ script \in Lines
    /\ free = 0
    /\ last = NoMove
    /\ player = NoPlayer
    /\ coordinator = NoCoordinator
    /\ tick = NoTick

\* The game: State (state.rs) driven click by click.  The selection, the
\* call of attempt_move and the turn flip are those of the click handler
\* (main.rs 362-371); main.rs defines a State, get_moves and attempt_move of
\* its own (lines 115-278), which are not what is modelled here: every
\* action below acts on the State of state.rs.

\* A click with nothing selected selects a piece of the side to move.
Select(c) ==
    /\ ~aborted
    /\ selected_square = NoCoord
    /\ IF script # <<>> THEN c = script_source ELSE free < MaxFree
    /\ is_some(squares[index(c)])
    /\ squares[index(c)].colour = turn
    /\ selected_square' = c
    /\ UNCHANGED <<squares, turn, history, next_promotor, aborted, script,
                   free, last>>
    /\ UNCHANGED player_vars

\* A click with a piece selected: State::attempt_move (state.rs 127-155) to
\* the clicked square; when it returns true the caller flips the turn.
AttemptMove ==
    /\ ~aborted
    /\ selected_square # NoCoord
    /\ \E r \in attempts(State(squares, history, next_promotor),
                        selected_square,
                        IF script # <<>> THEN {script_target}
                        ELSE Rank \X Rank) :
          IF r.panic
          THEN /\ aborted' = TRUE
               /\ UNCHANGED <<squares, turn, selected_square, history,
                              next_promotor, script, free, last>>
          ELSE IF r.value
          THEN /\ squares' = r.state.squares
               /\ turn' = turn_after(turn, r.value)
               /\ history' = r.state.history
               /\ selected_square' = r.selected_square
               /\ script' = IF script # <<>> THEN Tail(script) ELSE script
               /\ free' = IF script # <<>> THEN free ELSE free + 1
               /\ last' = [function |-> r.move.function,
                           src |-> selected_square,
                           dst |-> r.move.dst,
                           colour |-> turn,
                           before |-> State(squares, history, next_promotor),
                           after |-> r.state]
               /\ UNCHANGED <<next_promotor, aborted>>
          ELSE /\ selected_square' = r.selected_square
               /\ turn' = turn_after(turn, r.value)
               /\ squares' = r.state.squares
               /\ history' = r.state.history
               /\ UNCHANGED <<next_promotor, aborted, script, free, last>>
    /\ UNCHANGED player_vars

Next ==
    \/ \E c \in Rank \X Rank : Select(c)
    \/ AttemptMove

Spec == Init /\ [][Next]_vars

\* ------------------------------------------------------------------------
\* player.rs: the player workers.  A worker holds a clone of a State (its
\* mirror), an optional selected move and the two channel ends; the
\* coordinator is the other end of both channels and the holder of the
\* worker: `coordinator` is [feed, sent, calls], the moves it has yet to
\* hand to the worker, the moves it has sent on the channel and the number
\* of calls it has made on the worker outside a tick.
\* `player` is [kind, internal_state, selected_move, tx_to_main,
\* rx_from_main, colour, aborted, tx_closed]: tx_to_main is the sequence of
\* the messages sent so far, rx_from_main the messages sent to the worker
\* and not yet received, tx_closed whether the coordinator has dropped the
\* Receiver of tx_to_main.
\* ------------------------------------------------------------------------

MoveInfo(coord, move_data) == [coord |-> coord, move_data |-> move_data]

\* Option<MoveInfo>::None
NoMoveInfo == MoveInfo(NoCoord, dummy(NoCoord))

\* The clicks of a scripted line: source then target of each ply.
RECURSIVE clicks_of(_)

clicks_of(line) ==
    IF line = <<>> THEN <<>>
    ELSE << <<Head(line)[1], Head(line)[2]>>, <<Head(line)[3], Head(line)[4]>> >>
            \o clicks_of(Tail(line))

\* One click on a State of state.rs: [panic, state, turn, selected, moves].
\* With nothing selected the click selects a piece of the side to move; with a
\* piece selected it attempts the move, and an accepted move flips the turn
\* and is added to the moves.
click(g, c) ==
    IF g.selected = NoCoord
    THEN IF is_some(content(g.state, c)) /\ content(g.state, c).colour = g.turn
         THEN [g EXCEPT !.selected = c]
         ELSE g
    ELSE the({[panic |-> r.panic,
               state |-> r.state,
               turn |-> turn_after(g.turn, r.value),
               selected |-> IF r.panic THEN g.selected ELSE r.selected_square,
               moves |-> IF r.value
                         THEN Append(g.moves, MoveInfo(g.selected, r.move))
                         ELSE g.moves] :
                r \in {attempt_move(g.state, g.selected, c)}})

RECURSIVE replay(_, _)

\* The handler over a sequence of clicks, up to the first abort.
replay(g, clicks) ==
    IF clicks = <<>> \/ g.panic THEN g
    ELSE the({replay(next, Tail(clicks)) : next \in {click(g, Head(clicks))}})

\* The game after the clicks of a scripted line, from State st with colour
\* to move and nothing selected: [panic, state, turn, selected, moves], the
\* moves being the MoveInfo of each accepted ply.
play(st, colour, line, moves) ==
    replay([panic |-> FALSE, state |-> st, turn |-> colour,
            selected |-> NoCoord, moves |-> moves],
           clicks_of(line))

\* A State with the two kings only, both moved: White's on h1, Black's on
\* a1.
bare_kings ==
    [i \in BoardIndices |->
        CASE i = index(<<7, 0>>)
                -> [from_char("King", White) EXCEPT !.has_moved = TRUE]
          [] i = index(<<0, 0>>)
                -> [from_char("King", Black) EXCEPT !.has_moved = TRUE]
          [] OTHER -> NoPiece]

\* Kh1-h2, Ka1-a2, Kh2-h3 on bare_kings.
LineBareKings ==
    << <<7, 0, 7, 1>>, <<0, 0, 0, 1>>, <<7, 1, 7, 2>> >>

\* The games a worker's run is built on, [start, line, unsent, kinds,
\* colours]: the worker, of one of the kinds and colours, is built on the
\* State reached from start before the last plies of the line, at most
\* `unsent` of them, which the coordinator then hands to it.
PlayerGames ==
    {[start |-> State(new_squares, <<>>, "Queen"),
      line |-> SubSeq(LineRookOnBackRank, 1, 2), unsent |-> 2,
      kinds |-> {"human"}, colours |-> {White, Black}],
     [start |-> State(bare_kings, <<>>, "Queen"),
      line |-> LineBareKings, unsent |-> 3,
      kinds |-> {"human", "random"}, colours |-> {White, Black}],
     [start |-> State(new_squares, <<>>, "Queen"),
      line |-> LineOnlyMove, unsent |-> 0,
      kinds |-> {"random"}, colours |-> {Black}]}

\* HumanPlayer::new, RandomPlayer::new
new_player(kind, state_to_clone, colour) ==
    [kind |-> kind,
     internal_state |-> clone(state_to_clone),
     selected_move |-> NoMoveInfo,
     tx_to_main |-> <<>>,
     rx_from_main |-> <<>>,
     colour |-> colour,
     aborted |-> FALSE,
     tx_closed |-> FALSE]

\* update_internal_state: [panic, state].
update_internal_state(p, new_move) ==
    make_move(p.internal_state, new_move.coord, new_move.move_data)

\* tick, lines 74-76 and 139-141: try_recv and the update of the mirror.
\* [panic, player, received].
receive(p) ==
    IF p.rx_from_main = <<>>
    THEN [panic |-> FALSE, player |-> p, received |-> NoMoveInfo]
    ELSE the({[panic |-> made.panic,
               player |-> [p EXCEPT !.rx_from_main = Tail(@),
                                    !.internal_state = made.state],
               received |-> Head(p.rx_from_main)] :
                made \in {update_internal_state(p, Head(p.rx_from_main))}})

\* A variant of send_move that keeps the selection; with it in place of
\* send_move, C28 does not hold.
send_move_keeping_selection(p) ==
    IF p.selected_move = NoMoveInfo
    THEN [panic |-> TRUE, err |-> FALSE, player |-> p, sent |-> NoMoveInfo]
    ELSE IF p.tx_closed
    THEN [panic |-> FALSE, err |-> TRUE, player |-> p, sent |-> NoMoveInfo]
    ELSE [panic |-> FALSE, err |-> FALSE,
          player |-> [p EXCEPT !.tx_to_main = Append(@, p.selected_move)],
          sent |-> p.selected_move]

\* send_move: [panic, err, player, sent].  The assert aborts when nothing is
\* selected; a send on a channel whose Receiver is gone returns Err through
\* the `?`, before the selection is cleared.
send_move(p) ==
    IF p.selected_move = NoMoveInfo
    THEN [panic |-> TRUE, err |-> FALSE, player |-> p, sent |-> NoMoveInfo]
    ELSE IF p.tx_closed
    THEN [panic |-> FALSE, err |-> TRUE, player |-> p, sent |-> NoMoveInfo]
    ELSE [panic |-> FALSE, err |-> FALSE,
          player |-> [p EXCEPT !.tx_to_main = Append(@, p.selected_move),
                               !.selected_move = NoMoveInfo],
          sent |-> p.selected_move]

\* tick, lines 78-80 and 143-145: an Err of send_move aborts the tick.
send_if_selected(p) ==
    IF p.selected_move # NoMoveInfo
    THEN the({[s EXCEPT !.panic = s.panic \/ s.err] : s \in {send_move(p)}})
    ELSE [panic |-> FALSE, err |-> FALSE, player |-> p, sent |-> NoMoveInfo]

\* RandomPlayer::tick, lines 149-168: the moves of every piece of the
\* player's colour, as MoveInfo.  [panic, moves].
all_moves(st, colour) ==
    the({[panic |-> \E g \in got : g[2].panic,
          moves |-> UNION {{MoveInfo(g[1], m) : m \in g[2].moves} : g \in got}] :
            got \in {{<<coords(i), get_moves(st, coords(i), TRUE)>> :
                        i \in {j \in BoardIndices :
                                 st.squares[j].colour = colour}}}})

\* RandomPlayer::tick, lines 170-172: the values all_moves[1] can take
\* after the shuffle, any of the moves when there are two or more.
picks(moves) == IF Cardinality(moves) < 2 THEN {} ELSE moves

\* RandomPlayer::tick, lines 147-173: [panic, picks], the values of
\* selected_move after the random pick; the tick aborts when get_moves does
\* or when the index 1 is out of bounds.
compute(p) ==
    the({IF all.panic \/ Cardinality(all.moves) < 2
         THEN [panic |-> TRUE, picks |-> {}]
         ELSE [panic |-> FALSE, picks |-> picks(all.moves)] :
            all \in {all_moves(p.internal_state, p.colour)}})

\* The worker is built on the State before the last k plies of a line.
PlayerInit ==
    /\ squares = new_squares
    /\ turn = White
    /\ selected_square = NoCoord
    /\ history = <<>>
    /\ next_promotor = "Queen"
    /\ aborted = FALSE
    /\ script = <<>>
    /\ free = 0
    /\ last = NoMove
    /\ \E game \in PlayerGames :
       \E n \in {Len(game.line)},
          f \in {Min({MaxFeed, Len(game.line), game.unsent})} :
       \E opening \in {play(game.start, White,
                            SubSeq(game.line, 1, n - f), <<>>)} :
       \E k \in 0..f :
       \E before \in {play(opening.state, opening.turn,
                           SubSeq(game.line, n - f + 1, n - k), <<>>)} :
       \E whole \in {play(before.state, before.turn,
                          SubSeq(game.line, n - k + 1, n), <<>>)} :
       \E kind \in game.kinds, colour \in game.colours :
          /\ player = new_player(kind, before.state, colour)
          /\ coordinator = [feed |-> whole.moves, sent |-> <<>>,
                            calls |-> 0]
    /\ tick = [n |-> 0, received |-> NoMoveInfo, sent |-> NoMoveInfo,
               computed |-> FALSE, applied |-> <<>>, selections |-> 0]

\* The coordinator sends its next move to the worker.
MainSends ==
    /\ ~player.aborted
    /\ coordinator.feed # <<>>
    /\ player' = [player EXCEPT
                     !.rx_from_main = Append(@, Head(coordinator.feed))]
    /\ coordinator' = [coordinator EXCEPT
                          !.feed = Tail(@),
                          !.sent = Append(@, Head(coordinator.feed))]
    /\ UNCHANGED tick
    /\ UNCHANGED game_vars

\* The ghost record of a tick: what it received, sent and whether it ran
\* the random pick; `applied` lists the moves applied to the mirror so far
\* and `selections` counts the random picks.
ticked(r, s, computed) ==
    [n |-> tick.n + 1, received |-> r.received, sent |-> s.sent,
     computed |-> computed,
     applied |-> IF r.received = NoMoveInfo THEN tick.applied
                 ELSE Append(tick.applied, r.received),
     selections |-> tick.selections + IF computed THEN 1 ELSE 0]

\* The coordinator, with nothing left to send, drops the Receiver of the
\* worker's tx_to_main.
MainDrops ==
    /\ ~player.aborted
    /\ ~player.tx_closed
    /\ coordinator.feed = <<>>
    /\ player' = [player EXCEPT !.tx_closed = TRUE]
    /\ UNCHANGED <<coordinator, tick>>
    /\ UNCHANGED game_vars

\* The holder of the worker calls send_move outside a tick: the assert
\* aborts when nothing is selected, and an Err is returned to the caller with
\* the worker as it was.
SendMove ==
    /\ ~player.aborted
    /\ coordinator.calls < MaxCalls
    /\ \E s \in {send_move(player)} :
          player' = IF s.panic THEN [player EXCEPT !.aborted = TRUE]
                    ELSE s.player
    /\ coordinator' = [coordinator EXCEPT !.calls = @ + 1]
    /\ UNCHANGED tick
    /\ UNCHANGED game_vars

\* The holder of the worker calls update_internal_state outside a tick, with
\* its next move, which then does not go through the channel.
UpdateInternalState ==
    /\ ~player.aborted
    /\ coordinator.calls < MaxCalls
    /\ coordinator.feed # <<>>
    /\ \E made \in {update_internal_state(player, Head(coordinator.feed))} :
          player' = IF made.panic THEN [player EXCEPT !.aborted = TRUE]
                    ELSE [player EXCEPT !.internal_state = made.state]
    /\ coordinator' = [coordinator EXCEPT !.feed = Tail(@),
                                          !.calls = @ + 1]
    /\ UNCHANGED tick
    /\ UNCHANGED game_vars

\* HumanPlayer::tick
HumanTick ==
    /\ player.kind = "human"
    /\ ~player.aborted
    /\ tick.n < MaxTicks
    /\ \E r \in {receive(player)} :
          IF r.panic
          THEN /\ player' = [player EXCEPT !.aborted = TRUE]
               /\ UNCHANGED tick
          ELSE \E s \in {send_if_selected(r.player)} :
                  IF s.panic
                  THEN /\ player' = [s.player EXCEPT !.aborted = TRUE]
                       /\ UNCHANGED tick
                  ELSE /\ player' = s.player
                       /\ tick' = ticked(r, s, FALSE)
    /\ UNCHANGED coordinator
    /\ UNCHANGED game_vars

\* RandomPlayer::tick
RandomTick ==
    /\ player.kind = "random"
    /\ ~player.aborted
    /\ tick.n < MaxTicks
    /\ \E r \in {receive(player)} :
          IF r.panic
          THEN /\ player' = [player EXCEPT !.aborted = TRUE]
               /\ UNCHANGED tick
          ELSE \E s \in {send_if_selected(r.player)} :
                  IF s.panic
                  THEN /\ player' = [s.player EXCEPT !.aborted = TRUE]
                       /\ UNCHANGED tick
                  ELSE IF s.player.selected_move # NoMoveInfo
                  THEN /\ player' = s.player
                       /\ tick' = ticked(r, s, FALSE)
                  ELSE \E c \in {compute(s.player)} :
                          IF c.panic
                          THEN /\ player' = [s.player EXCEPT !.aborted = TRUE]
                               /\ UNCHANGED tick
                          ELSE \E pick \in c.picks :
                                  /\ player' = [s.player EXCEPT
                                                   !.selected_move = pick]
                                  /\ tick' = ticked(r, s, TRUE)
    /\ UNCHANGED coordinator
    /\ UNCHANGED game_vars

PlayerNext ==
    \/ MainSends
    \/ MainDrops
    \/ SendMove
    \/ UpdateInternalState
    \/ HumanTick
    \/ RandomTick

PlayerSpec == PlayerInit /\ [][PlayerNext]_vars

\* ------------------------------------------------------------------------
\* Properties
\* ------------------------------------------------------------------------

Castles == {"castle_long", "castle_short"}

\* A position that is not one of the game's is gone through once, in the
\* states before the first move.
once(positions) == IF history = <<>> THEN positions ELSE {}

\* Every position is reached with nothing selected, and a selection changes
\* neither the board nor the history: the pieces of a position are gone
\* through in the state without a selection.
pieces_of_position(coordinates) ==
    IF selected_square = NoCoord THEN coordinates ELSE {}

\* The pieces of one kind and colour on a board.
count(sq, kind, colour) ==
    Cardinality({i \in BoardIndices :
                   sq[i].kind = kind /\ sq[i].colour = colour})

\* C1: no non-castling move that get_moves(square, true) returns for a piece
\* of the side to move (ordinary move, double push, promotion or en passant
\* capture) leaves the mover's own king in check once make_move has applied
\* it.  The en passant moves are pushed at lines 305-325 and 339-359 and
\* never pass the filter of lines 369-385.
C1_NoReturnedMoveExposesKing ==
    (last.function \notin Castles \cup {"none"})
        => is_in_check(last.after, last.colour) # "yes"

\* C2: every state reached by applying moves that get_moves returned holds
\* exactly one White King and exactly one Black King.
C2_OneKingPerColour ==
    /\ count(squares, "King", White) = 1
    /\ count(squares, "King", Black) = 1

\* C3: a returned move carries the promotion effect only for a Pawn, and a
\* piece of any other kind that moves onto rank index 0 or 7 keeps its kind.
C3_PromotionOnlyForPawns ==
    /\ last.function = "promote_pawn"
          => content(last.before, last.src).kind = "Pawn"
    /\ (/\ last.function \notin Castles \cup {"none"}
        /\ content(last.before, last.src).kind # "Pawn"
        /\ last.dst[2] \in {0, 7})
          => content(last.after, last.dst).kind
                = content(last.before, last.src).kind

\* C4: an en-passant-eligible piece is a pawn of the side that has just
\* moved, and that side's move was this pawn's double push; so once the
\* opponent's reply is applied and the turn is back with a colour, no piece
\* of that colour is eligible.  (Violated: the flag is set by the double
\* push and never cleared.)
C4_EligibleOnlyForOnePly ==
    \A i \in BoardIndices :
        squares[i].en_passanteable =>
            /\ squares[i].kind = "Pawn"
            /\ squares[i].colour = flip(turn)
            /\ last.function = "double_push"
            /\ last.colour = squares[i].colour
            /\ last.dst = coords(i)
            /\ last.src[1] = last.dst[1]
            /\ last.dst[2] - last.src[2] = 2 * up_dir(squares[i])
            /\ history # <<>>
            /\ history[Len(history)] = PerformedMove(last.src, last.dst)

\* The pawns of the side to move that stand beside the square an enemy pawn
\* has just double-pushed to.
C5_pawns ==
    IF last.function = "double_push" /\ last.colour = flip(turn)
    THEN {p \in {<<last.dst[1] - 1, last.dst[2]>>,
                 <<last.dst[1] + 1, last.dst[2]>>} :
            /\ OnBoard(p)
            /\ squares[index(p)].kind = "Pawn"
            /\ squares[index(p)].colour = turn}
    ELSE {}

\* C5: when an enemy pawn has just double-pushed to the square beside a
\* pawn P, get_moves(P, true) includes a move to the square diagonally
\* forward of P on the enemy pawn's file, and make_move with it puts P on
\* that square, empties P's square and removes the enemy pawn.
C5_EnPassantOfferedAndApplied ==
    \A p \in C5_pawns :
        \A st \in {State(squares, history, next_promotor)} :
        \A got \in {get_moves(st, p, TRUE)} :
            LET passed == <<last.dst[1], p[2] + up_dir(content(st, p))>>
                to_passed == {m \in got.moves : m.dst = passed}
            IN  /\ ~got.panic
                /\ passed = <<last.src[1], (last.src[2] + last.dst[2]) \div 2>>
                /\ to_passed # {}
                /\ \A m \in to_passed :
                   \A made \in {make_move(st, p, m)} :
                      /\ ~made.panic
                      /\ content(made.state, passed) = content(st, p)
                      /\ content(made.state, p) = NoPiece
                      /\ content(made.state, last.dst) = NoPiece

\* An enemy pawn has just double-pushed beside a pawn of the side to move.
C5_Witness == ~aborted /\ C5_pawns # {}

\* C6: applying a castling move appends exactly two PerformedMove records to
\* the history, one for the rook's relocation and one for the king's.
\* (Violated: the castling closure pushes one record, from the king's square
\* to the king's castled square, and perform_castle relocates both pieces
\* with dummy moves, which record nothing.)
C6_CastlingAppendsTwoRecords ==
    last.function \in Castles =>
        Len(last.after.history) = Len(last.before.history) + 2

\* C7: a castling move of colour C on its home rank r leaves the king on
\* (2, r) and the rook on (3, r) with (0, r) and (4, r) empty (long), or the
\* king on (6, r) and the rook on (5, r) with (4, r) and (7, r) empty
\* (short); both pieces have has_moved set, every other square is unchanged.
C7_CastlingRelocatesKingAndRook ==
    last.function \in Castles =>
        LET r == IF last.colour = White THEN 0 ELSE 7
            long == last.function = "castle_long"
            king_from == <<4, r>>
            king_to == <<IF long THEN 2 ELSE 6, r>>
            rook_from == <<IF long THEN 0 ELSE 7, r>>
            rook_to == <<IF long THEN 3 ELSE 5, r>>
            b == last.before
            a == last.after
        IN  /\ last.src = king_from
            /\ last.dst = king_to
            /\ content(a, king_to)
                  = [from_char("King", last.colour) EXCEPT !.has_moved = TRUE]
            /\ content(a, rook_to)
                  = [from_char("Rook", last.colour) EXCEPT !.has_moved = TRUE]
            /\ content(a, king_from) = NoPiece
            /\ content(a, rook_from) = NoPiece
            /\ \A i \in BoardIndices \ {index(king_from), index(king_to),
                                        index(rook_from), index(rook_to)} :
                  a.squares[i] = b.squares[i]

C7_Witness ==
    /\ last.function = "castle_long"
    /\ last.colour = Black
    /\ content(last.after, <<2, 7>>).kind = "King"
    /\ content(last.after, <<3, 7>>).kind = "Rook"

\* The conditions C8 names for the castling move of the king on square k
\* toward the a-file corner (long) or the h-file corner: the king has not
\* moved, the corner of its rank holds an unmoved rook of its colour, and
\* the squares strictly between the two are empty.
castling_conditions(st, col, k, long) ==
    LET corner == content(st, <<IF long THEN 0 ELSE 7, k[2]>>)
        between == IF long THEN {x \in Rank : 0 < x /\ x < k[1]}
                   ELSE {x \in Rank : k[1] < x /\ x < 7}
    IN  /\ ~content(st, k).has_moved
        /\ corner.kind = "Rook"
        /\ corner.colour = col
        /\ ~corner.has_moved
        /\ \A x \in between : ~is_some(content(st, <<x, k[2]>>))

\* The castling moves among a set of moves, toward one corner.
castling_offers(k, moves, long) ==
    {m \in moves : /\ m.function = IF long THEN "castle_long" ELSE "castle_short"
                   /\ m.dst = <<IF long THEN k[1] - 2 ELSE k[1] + 2, k[2]>>}

\* C8: get_moves on a king's square includes the castling move toward a
\* corner exactly when the king has not moved, that corner of its rank holds
\* an unmoved rook of its colour and the squares between them are empty;
\* checks play no part.  (Without the check filter for both kings in every
\* position, with it for the king once it is selected.)
C8_CastlingOfferedIffUnmovedAndEmpty ==
    \A col \in {White, Black}, test_for_checks \in BOOLEAN :
    \A st \in {State(squares, history, next_promotor)} :
    \A k \in {get_king_coord(st, col)} \ {NoCoord} :
    \A got \in IF test_for_checks
               THEN {get_moves(st, c, TRUE) : c \in {k} \cap {selected_square}}
               ELSE {get_moves(st, c, FALSE) : c \in pieces_of_position({k})} :
        ~got.panic =>
            /\ \A long \in BOOLEAN :
                  castling_offers(k, got.moves, long) # {}
                     <=> castling_conditions(st, col, k, long)
            /\ \A m \in got.moves :
                  m.function \in Castles =>
                     \E long \in BOOLEAN : m \in castling_offers(k, got.moves, long)

\* The side to move is in check and its king is offered a castling move.
C8_Witness ==
    /\ ~aborted
    /\ \A st \in {State(squares, history, next_promotor)} :
          /\ is_in_check(st, turn) = "yes"
          /\ \E m \in get_moves(st, get_king_coord(st, turn), TRUE).moves :
                m.function = "castle_short"

\* C9: the history only grows at its end; an applied non-castling move
\* appends exactly one record, with the move's source and destination; a
\* step that applies no move (a selection, a rejected attempt with the
\* filter's simulations) leaves the history as it is.
C9_HistoryAppendOnly ==
    [][/\ Len(history') >= Len(history)
       /\ SubSeq(history', 1, Len(history)) = history
       /\ (last' # last /\ last'.function \notin Castles)
             => history' = Append(history, PerformedMove(last'.src, last'.dst))
       /\ last' = last => history' = history]_vars

C9_Witness ==
    /\ last.function \in {"history_only", "double_push", "en_passant"}
    /\ Len(history) >= 2
    /\ history = Append(last.before.history, PerformedMove(last.src, last.dst))

\* C10: a piece that has not moved in the new state stood unmoved on the
\* same square before the step: every piece a move relocates (both pieces
\* of a castling move, a promoted piece, an en passant capturer) has
\* has_moved set, and has_moved never goes back from true to false.
\* (Violated: en_passant moves the capturer as it is, and with the flag of
\* C4 never cleared a pawn that has not moved can capture en passant.)
C10_HasMovedMonotonic ==
    [][\A i \in BoardIndices :
          (is_some(squares'[i]) /\ ~squares'[i].has_moved)
             => /\ squares[i].kind = squares'[i].kind
                /\ squares[i].colour = squares'[i].colour
                /\ ~squares[i].has_moved
                /\ (last' # last => coords(i) # last'.dst)]_vars

\* The State of the current position, and the destinations of a result of
\* get_moves.
here == State(squares, history, next_promotor)

destinations(got) == {m.dst : m \in got.moves}

\* The square k ranks ahead of a pawn.
ahead(piece, coord, k) == <<coord[1], coord[2] + k * up_dir(piece)>>

\* The squares holding a pawn, by has_moved.
pawns_on_board(moved) ==
    {coords(i) : i \in {j \in BoardIndices :
                          /\ squares[j].kind = "Pawn"
                          /\ squares[j].has_moved = moved}}

\* C11: for an unmoved pawn the one-square advance is a destination only if
\* the first square ahead is empty, the two-square advance only if the first
\* and the second square ahead are both empty, and with the first square
\* occupied the pawn has no forward destination at all.
C11_UnmovedPawnAdvances ==
    \A p \in pawns_on_board(FALSE) :
    \A got \in {get_moves(here, p, FALSE)} :
        ~got.panic =>
            LET piece == content(here, p)
                one == ahead(piece, p, 1)
                two == ahead(piece, p, 2)
            IN  /\ one \in destinations(got) => ~is_some(content(here, one))
                /\ two \in destinations(got)
                      => /\ ~is_some(content(here, one))
                         /\ ~is_some(content(here, two))
                /\ is_some(content(here, one))
                      => \A d \in destinations(got) : d[1] # p[1]

\* C12: a pawn that has moved has exactly one forward destination, the
\* square one rank ahead, whenever that square is on the board and empty
\* (the far rank included), and no forward destination otherwise.
C12_MovedPawnAdvances ==
    \A p \in pawns_on_board(TRUE) :
    \A got \in {get_moves(here, p, FALSE)} :
        ~got.panic =>
            LET one == ahead(content(here, p), p, 1)
                forward == {d \in destinations(got) : d[1] = p[1]}
            IN  IF OnBoard(one) /\ ~is_some(content(here, one))
                THEN forward = {one}
                ELSE forward = {}

\* A piece that has left its home square.
moved(kind, colour) == [from_char(kind, colour) EXCEPT !.has_moved = TRUE]

\* The position holding the pieces of `placed` (a function from coordinates
\* to pieces) and nothing else.
position(placed) ==
    State([i \in BoardIndices |->
              IF coords(i) \in DOMAIN placed THEN placed[coords(i)]
              ELSE NoPiece],
          <<>>, "Queen")

\* The squares C13 describes for a sliding piece: k steps along one of its
\* directions, on the board, with every square passed on the way empty and
\* no friendly piece on the square itself.
squares_along_rays(st, piece, coord) ==
    {step(coord, dk[1], dk[2]) :
        dk \in {e \in sliding_offsets(piece.kind) \X (1..7) :
                  /\ OnBoard(step(coord, e[1], e[2]))
                  /\ \A j \in 1..(e[2] - 1) :
                        ~is_some(content(st, step(coord, e[1], j)))
                  /\ content(st, step(coord, e[1], e[2])).colour
                        # piece.colour}}

sliders_on_board ==
    {coords(i) : i \in {j \in BoardIndices : is_sliding(squares[j].kind)}}

\* A rook on a1 with nothing else on its rank and file.
RookOnA1 ==
    position(<<0, 0>> :> moved("Rook", White)
             @@ <<6, 1>> :> moved("King", White)
             @@ <<6, 6>> :> moved("King", Black))

\* C13: the destinations of a Rook, Bishop or Queen are exactly the squares
\* along each of its directions up to the board edge, stopping before the
\* first friendly piece and on the first enemy piece; a rook on a1 with
\* nothing on its rank and file has the 14 destinations a2-a8 and b1-h1.
C13_SlidingDestinations ==
    /\ \A p \in pieces_of_position(sliders_on_board) :
       \A got \in {get_moves(here, p, FALSE)} :
          ~got.panic =>
             destinations(got) = squares_along_rays(here, content(here, p), p)
    /\ \A got \in {get_moves(given, <<0, 0>>, FALSE) :
                      given \in once({RookOnA1})} :
          /\ ~got.panic
          /\ destinations(got) = {<<0, y>> : y \in 1..7} \cup {<<x, 0>> : x \in 1..7}
          /\ Cardinality(destinations(got)) = 14

\* A sliding piece of the position has a capture among at least five
\* destinations and a friendly piece next to it.
C13_Witness ==
    \E p \in sliders_on_board :
    \E got \in {get_moves(here, p, FALSE)} :
        /\ ~got.panic
        /\ Cardinality(destinations(got)) >= 5
        /\ \E d \in destinations(got) : is_some(content(here, d))
        /\ \E d \in QUEEN_OFFSETS :
              /\ OnBoard(step(p, d, 1))
              /\ content(here, step(p, d, 1)).colour = content(here, p).colour

\* The squares C14 describes for a Knight or a King: at one of the piece's
\* eight offsets, on the board, not held by a friendly piece.
squares_at_offsets(st, piece, coord) ==
    {s \in {<<coord[1] + o[1], coord[2] + o[2]>> :
              o \in IF piece.kind = "Knight" THEN KNIGHT_MOVES_RAW
                    ELSE KING_MOVES_RAW} :
        OnBoard(s) /\ content(st, s).colour # piece.colour}

steppers_on_board ==
    {coords(i) : i \in {j \in BoardIndices :
                          squares[j].kind \in {"Knight", "King"}}}

\* A knight on d4 with no friendly piece on its target squares.
KnightOnD4 ==
    position(<<3, 3>> :> moved("Knight", White)
             @@ <<6, 1>> :> moved("King", White)
             @@ <<6, 6>> :> moved("King", Black))

\* C14: the non-castling destinations of a Knight or a King are exactly the
\* squares at its eight offsets that are on the board and not held by a
\* friendly piece; a knight on d4 with no friendly piece on its target
\* squares has 8 destinations.
C14_SteppingDestinations ==
    /\ \A p \in pieces_of_position(steppers_on_board) :
       \A got \in {get_moves(here, p, FALSE)} :
          ~got.panic =>
             {m.dst : m \in {n \in got.moves : n.function \notin Castles}}
                = squares_at_offsets(here, content(here, p), p)
    /\ \A got \in {get_moves(given, <<3, 3>>, FALSE) :
                      given \in once({KnightOnD4})} :
          /\ ~got.panic
          /\ destinations(got)
                = {<<1, 2>>, <<1, 4>>, <<2, 1>>, <<2, 5>>,
                   <<4, 1>>, <<4, 5>>, <<5, 2>>, <<5, 4>>}
          /\ Cardinality(destinations(got)) = 8

\* A knight of the position has an enemy piece on one of its target squares
\* and a friendly piece on another.
C14_Witness ==
    \E p \in steppers_on_board :
        /\ content(here, p).kind = "Knight"
        /\ \E got \in {get_moves(here, p, FALSE)} :
              /\ ~got.panic
              /\ \E d \in destinations(got) : is_some(content(here, d))
        /\ \E o \in KNIGHT_MOVES_RAW :
              /\ OnBoard(<<p[1] + o[1], p[2] + o[2]>>)
              /\ content(here, <<p[1] + o[1], p[2] + o[2]>>).colour
                    = content(here, p).colour

occupied_squares ==
    {coords(i) : i \in {j \in BoardIndices : is_some(squares[j])}}

\* C15: every destination get_moves returns for an occupied square, with or
\* without the check filter, has file and rank in 0..7 and differs from the
\* piece's own square.  (Without the filter for every piece of every
\* position.  The filter only takes destinations away, and the moves it
\* leaves are gone through as they are offered: each move applied is one
\* that get_moves(selected, true) returned.)
C15_DestinationsOnBoardNotOwnSquare ==
    /\ \A p \in pieces_of_position(occupied_squares) :
       \A got \in {get_moves(here, p, FALSE)} :
          \A d \in destinations(got) : OnBoard(d) /\ d # p
    /\ last.function # "none" =>
          /\ OnBoard(last.dst)
          /\ last.dst # last.src
          /\ \E m \in get_moves(last.before, last.src, FALSE).moves :
                m.dst = last.dst /\ m.function = last.function

\* A piece on the a-file or the h-file is selected and has filtered moves.
C15_Witness ==
    /\ selected_square # NoCoord
    /\ selected_square[1] \in {0, 7}
    /\ get_moves(here, selected_square, TRUE).moves # {}

\* C17: attempt_move with a target that is not the destination of a legal
\* move of the selected piece (the selected square itself and a square
\* holding a piece of the same colour included) returns false and leaves the
\* board, the history and the turn as they were; accepted or rejected, the
\* selection is cleared.
C17_RejectedAttemptChangesNothing ==
    (selected_square # NoCoord /\ ~aborted) =>
        \A got \in {get_moves(here, selected_square, TRUE)} :
        \A target \in Rank \X Rank :
        \A r \in {attempt_move_given(here, selected_square, target, got)} :
            /\ ~r.panic => r.selected_square = NoCoord
            /\ (\/ target = selected_square
                \/ content(here, target).colour = turn
                \/ (~got.panic /\ target \notin destinations(got)))
                  => /\ ~r.panic
                     /\ ~r.value
                     /\ r.state = here
                     /\ turn_after(turn, r.value) = turn

\* A piece with legal moves is selected, and so is rejected on the empty
\* and the enemy-held squares that are not among their destinations.
C17_Witness ==
    /\ selected_square # NoCoord
    /\ ~aborted
    /\ \E got \in {get_moves(here, selected_square, TRUE)} :
          /\ ~got.panic
          /\ got.moves # {}
          /\ \E target \in Rank \X Rank :
                /\ target \notin destinations(got)
                /\ content(here, target).colour = flip(turn)

\* No two moves of a result of get_moves share their destination.
unique_destinations(got) ==
    \A m1 \in got.moves, m2 \in got.moves : m1.dst = m2.dst => m1 = m2

\* C18: get_moves returns no two moves with the same destination for the
\* same source square (with or without the check filter), so the move that
\* attempt_move picks for a target is the only move to it.
C18_OneMovePerDestination ==
    /\ \A p \in occupied_squares :
       \A got \in {get_moves(here, p, FALSE)} : unique_destinations(got)
    /\ selected_square # NoCoord =>
          \A got \in {get_moves(here, selected_square, TRUE)} :
             unique_destinations(got)

\* C19: get_moves on an empty square, or on a square whose piece's king is
\* not on the board, aborts; it returns no move list.
C19_GetMovesAbortsWithoutPieceOrKing ==
    \A c \in pieces_of_position(Rank \X Rank), test_for_checks \in BOOLEAN :
        (\/ ~is_some(content(here, c))
         \/ get_king_coord(here, content(here, c).colour) = NoCoord)
            => \A got \in {get_moves(here, c, test_for_checks)} :
                  got.panic /\ got.moves = {}

\* The program has aborted in a position without a Black king.
C19_Witness ==
    /\ aborted
    /\ count(squares, "King", Black) = 0
    /\ \E c \in occupied_squares :
          /\ content(here, c).colour = Black
          /\ get_moves(here, c, FALSE).panic

\* Some piece of the opposite colour has col's king square among its
\* unfiltered destinations.
attacked_by_enemy(st, col) ==
    \E i \in {j \in BoardIndices : st.squares[j].colour = flip(col)} :
        get_king_coord(st, col) \in destinations(get_moves(st, coords(i), FALSE))

\* C20: is_in_check(colour) is true exactly when some piece of the opposite
\* colour has the king's square among its destinations get_moves(piece,
\* false); the destinations of the colour's own pieces never make it true.
C20_InCheckIffAttackedByEnemy ==
    \A col \in {White, Black} :
    \A verdict \in {is_in_check(here, col)} :
        verdict # "panic" =>
            (verdict = "yes" <=> attacked_by_enemy(here, col))

\* The pawns of the position.
all_pawns == pawns_on_board(TRUE) \cup pawns_on_board(FALSE)

\* The square beside a pawn from which an en passant move to dst captures.
beside(p, dst) == <<dst[1], p[2]>>

\* C21: get_moves offers an en passant capture only when the piece beside
\* the pawn is an enemy pawn flagged en_passanteable and the diagonal-forward
\* destination is empty; an applied en passant capture changes no square
\* but the capturer's, the destination and the enemy pawn's.
C21_EnPassantOnlyOverEnemyPawn ==
    /\ \A p \in all_pawns :
       \A got \in {get_moves(here, p, FALSE)} :
       \A m \in {n \in got.moves : n.function = "en_passant"} :
          /\ content(here, beside(p, m.dst)).kind = "Pawn"
          /\ content(here, beside(p, m.dst)).colour = flip(content(here, p).colour)
          /\ content(here, beside(p, m.dst)).en_passanteable
          /\ m.dst = <<m.dst[1], p[2] + up_dir(content(here, p))>>
          /\ ~is_some(content(here, m.dst))
    /\ last.function = "en_passant" =>
          /\ ~is_some(content(last.before, last.dst))
          /\ \A i \in BoardIndices \ {index(last.src), index(last.dst),
                                      index(beside(last.src, last.dst))} :
                last.after.squares[i] = last.before.squares[i]

\* The effects that report that they did not relocate pieces.
Unhandled == {"dummy", "history_only", "double_push"}

\* What C22 states of make_move(src, move) from State b to State a.
default_relocation(b, a, src, dst) ==
    /\ content(a, dst).kind = content(b, src).kind
    /\ content(a, dst).colour = content(b, src).colour
    /\ content(a, dst).has_moved
    /\ content(a, src) = NoPiece
    /\ \A i \in BoardIndices \ {index(src), index(dst)} :
          a.squares[i] = b.squares[i]

\* C22: make_move runs the move's effect and, when the effect reports that
\* it did not relocate pieces, performs the default relocation: the
\* destination holds the piece of src with has_moved set and kind and colour
\* unchanged, src is empty and the other 62 squares are unchanged.  Stated
\* of every applied move and of every simulation of the filter for the
\* selected piece; make_move has no access to the side to move.
C22_DefaultRelocation ==
    /\ last.function \in Unhandled =>
          default_relocation(last.before, last.after, last.src, last.dst)
    /\ (selected_square # NoCoord /\ ~pawn_index_panic(content(here, selected_square), selected_square)) =>
          \A m \in candidate_moves(here, content(here, selected_square),
                                   selected_square) :
          \A made \in {make_move(clone(here), selected_square, dummy(m))} :
             /\ ~made.panic
             /\ default_relocation(here, made.state, selected_square, m)
             /\ made.state.history = history

\* An applied move without an effect of its own has captured a piece.
C22_Witness ==
    /\ last.function = "history_only"
    /\ is_some(content(last.before, last.dst))
    /\ content(last.after, last.dst).kind = content(last.before, last.src).kind
    /\ content(last.after, last.src) = NoPiece

\* C23: a move of a pawn carries the double-push effect exactly when its
\* destination is two ranks ahead of the pawn and the pawn has not moved
\* (and no move of another piece carries it); once it is applied the pawn
\* stands on the destination with en_passanteable and has_moved both set,
\* its source square is empty and no other square has changed.
\* (Violated: a pawn that has only moved en passant has has_moved false;
\* two ranks from the far rank its two-square move carries the promotion
\* effect, which line 394 tests first.)
C23_DoublePushEffect ==
    /\ selected_square # NoCoord =>
          \A piece \in {content(here, selected_square)} :
          \A got \in {get_moves(here, selected_square, FALSE)} :
          \A m \in got.moves :
             m.function = "double_push"
                <=> /\ piece.kind = "Pawn"
                    /\ ~piece.has_moved
                    /\ m.dst = ahead(piece, selected_square, 2)
    /\ last.function = "double_push" =>
          /\ content(last.before, last.src).kind = "Pawn"
          /\ ~content(last.before, last.src).has_moved
          /\ last.dst = ahead(content(last.before, last.src), last.src, 2)
          /\ content(last.after, last.dst)
                = [kind |-> "Pawn", colour |-> last.colour,
                   has_moved |-> TRUE, en_passanteable |-> TRUE]
          /\ content(last.after, last.src) = NoPiece
          /\ \A i \in BoardIndices \ {index(last.src), index(last.dst)} :
                last.after.squares[i] = last.before.squares[i]
          /\ squares[index(last.dst)] = content(last.after, last.dst)

\* The rank a pawn promotes on.
far_rank(colour) == IF colour = White THEN 7 ELSE 0

\* C24: when a pawn's move onto the far rank is applied, the move carries
\* the promotion effect, the destination holds a piece of the selected
\* promotion kind with the pawn's colour, has_moved set and en_passanteable
\* clear, the source square is empty and no other square has changed; the
\* selected promotion kind is never Pawn or King.
\* (Violated: an en passant move onto the far rank, offered beside any
\* flagged pawn, leaves the pawn a pawn.)
C24_PromotionReplacesPawn ==
    /\ next_promotor \in {"Queen", "Rook", "Bishop", "Knight"}
    /\ (/\ last.function # "none"
        /\ content(last.before, last.src).kind = "Pawn"
        /\ last.dst[2] = far_rank(last.colour)) =>
          /\ last.function = "promote_pawn"
          /\ content(last.after, last.dst)
                = [kind |-> last.before.next_promotor, colour |-> last.colour,
                   has_moved |-> TRUE, en_passanteable |-> FALSE]
          /\ content(last.after, last.src) = NoPiece
          /\ \A i \in BoardIndices \ {index(last.src), index(last.dst)} :
                last.after.squares[i] = last.before.squares[i]
          /\ squares[index(last.dst)] = content(last.after, last.dst)

\* The diagonal-forward squares of a pawn that are on the board.
diagonals(piece, coord) ==
    {s \in {<<coord[1] - 1, coord[2] + up_dir(piece)>>,
            <<coord[1] + 1, coord[2] + up_dir(piece)>>} : OnBoard(s)}

\* C25: a diagonal-forward square of a pawn is among its destinations only
\* when it holds an enemy piece or when the piece beside the pawn on that
\* file is en_passanteable; an empty one, or one holding a friendly piece,
\* with no eligible neighbour on its file is never a destination.
C25_DiagonalOnlyToCapture ==
    \A p \in pieces_of_position(all_pawns) :
    \A piece \in {content(here, p)} :
    \A got \in {get_moves(here, p, FALSE)} :
    \A d \in diagonals(piece, p) :
        d \in destinations(got) =>
            \/ content(here, d).colour = flip(piece.colour)
            \/ content(here, beside(p, d)).en_passanteable

\* A pawn has an enemy piece on one diagonal-forward square, which is a
\* destination, and its other diagonal-forward square is empty and is not.
C25_Witness ==
    \E p \in all_pawns :
    \E piece \in {content(here, p)} :
    \E got \in {get_moves(here, p, FALSE)} :
        /\ ~got.panic
        /\ \E d \in diagonals(piece, p) :
              /\ content(here, d).colour = flip(piece.colour)
              /\ d \in destinations(got)
        /\ \E d \in diagonals(piece, p) :
              /\ ~is_some(content(here, d))
              /\ d \notin destinations(got)

\* C26: a square gets selected only when it holds a piece of the side to
\* move; the turn flips exactly in the steps in which attempt_move returns
\* true, and the move applied then is the move of the side that was to
\* move: accepted moves alternate White, Black, White, ..., and a rejected
\* attempt leaves the side to move as it was.
C26_TurnFlipsOnAcceptedMoves ==
    [][/\ (selected_square' # NoCoord /\ selected_square = NoCoord)
             => /\ is_some(squares[index(selected_square')])
                /\ squares[index(selected_square')].colour = turn
                /\ turn' = turn
       /\ turn' # turn <=> last' # last
       /\ last' # last
             => /\ selected_square # NoCoord
                /\ last'.src = selected_square
                /\ last'.colour = turn
                /\ turn' = flip(turn)
                /\ last.function = "none" => last'.colour = White
                /\ last.function # "none" => last'.colour = flip(last.colour)
       /\ (selected_square # NoCoord /\ last' = last) => turn' = turn]_vars

\* Three moves have been accepted, the last one White's, and a Black piece
\* is selected.
C26_Witness ==
    /\ Len(history) >= 3
    /\ last.colour = White
    /\ turn = Black
    /\ selected_square # NoCoord
    /\ squares[index(selected_square)].colour = Black

\* C27: in one tick of a player worker either an incoming move is received
\* and applied to the mirror or, only when none arrived, the worker computes
\* a move of its own: a tick that applied an incoming move has not also run
\* the computation of a new move.
C27_TickReceivesOrComputes ==
    tick.n > 0 => ~(tick.received # NoMoveInfo /\ tick.computed)

\* The number of moves a worker holds selected: 0 or 1.
pending(p) == IF p.selected_move = NoMoveInfo THEN 0 ELSE 1

\* C28: a tick applies at most one incoming move to the mirror, and the
\* moves applied are, in order, the first moves the coordinator sent; a tick
\* that starts with a move selected sends exactly that move, once, and
\* clears the selection (a move selected afterwards is a newly computed
\* one); a tick that starts with none sends nothing.  So the moves sent and
\* the move still selected are together as many as the selections made.
C28_OneIncomingMovePerTickInOrder ==
    [][tick' # tick =>
          /\ Len(tick'.applied) <= Len(tick.applied) + 1
          /\ Len(player'.rx_from_main) >= Len(player.rx_from_main) - 1
          /\ tick'.applied = SubSeq(coordinator.sent, 1, Len(tick'.applied))
          /\ player'.rx_from_main
                = SubSeq(coordinator.sent, Len(tick'.applied) + 1,
                         Len(coordinator.sent))
          /\ player.selected_move # NoMoveInfo
                => /\ player'.tx_to_main
                         = Append(player.tx_to_main, player.selected_move)
                   /\ tick'.sent = player.selected_move
                   /\ (player'.selected_move # NoMoveInfo => tick'.computed)
          /\ player.selected_move = NoMoveInfo
                => player'.tx_to_main = player.tx_to_main
          /\ Len(player'.tx_to_main) + pending(player') = tick'.selections]_vars

\* Two ticks have each applied one of the coordinator's two moves, the
\* second has sent the move selected in the first and a move is selected.
C28_Witness ==
    /\ tick.n = 2
    /\ Len(tick.applied) = 2
    /\ tick.applied = coordinator.sent
    /\ Len(player.tx_to_main) = 1
    /\ tick.sent = player.tx_to_main[1]
    /\ player.selected_move # NoMoveInfo

\* C30: in every reachable state with both kings on the board,
\* get_moves(square, true) returns a move list, without aborting, for every
\* occupied square.
C30_FilteredMovesNeverAbort ==
    (/\ selected_square = NoCoord
     /\ count(squares, "King", White) >= 1
     /\ count(squares, "King", Black) >= 1) =>
        \A p \in occupied_squares :
        \A got \in {get_moves(here, p, TRUE)} : ~got.panic

\* The steps of a worker's tick: the coordinator and the channel ends it
\* holds are left alone.
tick_step ==
    /\ coordinator' = coordinator
    /\ player'.tx_closed = player.tx_closed
    /\ <<player, tick>>' # <<player, tick>>

\* C31: whenever the random player's colour has at least one legal move in
\* its mirror, a tick that reaches line 147 with no move selected ends with
\* a selected move that is one of the legal moves (get_moves with the check
\* filter) of a piece of the player's own colour, and the tick does not
\* abort.
C31_RandomTickSelectsLegalMove ==
    [][(tick_step /\ player.kind = "random") =>
         \A r \in {receive(player)} :
            ~r.panic =>
               \A s \in {send_if_selected(r.player)} :
               \A all \in {all_moves(s.player.internal_state, player.colour)} :
                  (s.player.selected_move = NoMoveInfo
                     /\ ~all.panic /\ all.moves # {}) =>
                        /\ ~player'.aborted
                        /\ player'.selected_move \in all.moves
                        /\ content(s.player.internal_state,
                                   player'.selected_move.coord).colour
                              = player.colour]_vars

\* The pieces whose has_moved flag is false.
unmoved == {i \in BoardIndices : is_some(squares[i]) /\ ~squares[i].has_moved}

\* The corners of the rank of colour col's king, when that king is on the
\* board and has not moved (get_moves, lines 444-448 and 486).
corners_of_unmoved_king(col) ==
    {<<x, king_coord[2]>> :
        x \in {0, 7},
        king_coord \in {k \in {get_king_coord(here, col)} :
                          k # NoCoord /\ ~content(here, k).has_moved}}

\* C32: in every state reachable from the starting layout, every piece
\* whose has_moved flag is false stands on the square it occupied in the
\* starting layout, as the piece the layout puts there; hence an unmoved
\* rook on a corner of an unmoved king's rank has the king's colour.
\* (Violated by a pawn that captures en passant from its starting square.)
C32_UnmovedPiecesOnStartingSquares ==
    /\ \A i \in unmoved : squares[i] = new_squares[i]
    /\ \A col \in {White, Black} :
       \A corner \in corners_of_unmoved_king(col) :
          \A rook \in {content(here, corner)} :
             (rook.kind = "Rook" /\ ~rook.has_moved) => rook.colour = col

====
